---- MODULE Spec2Model ----
(***************************************************************************)
(* Frame orchestration of the rhyolite renderers.                          *)
(*                                                                         *)
(* The repository holds several renderers that are never alive together:   *)
(*   "mesh"     MeshRenderer              src/src/renderer/mesh.rs         *)
(*   "renderer" Renderer                  src/src/renderer/mod.rs          *)
(*   "run"      the event loop of run()   src/src/lib.rs                   *)
(*   "marched"  MarchedRenderer           src/rhyolite/src/renderer/       *)
(*                                        marched.rs                       *)
(* A behaviour runs one of them (program).  Every public call is one       *)
(* action.  A panic unwinds out of the call and ends the program: the      *)
(* fields keep the values they had when the panic was raised and no        *)
(* further call is made.                                                   *)
(*                                                                         *)
(* GPU resources (buffers, descriptor sets, pipelines) carry no control    *)
(* flow and are left out; the results of the Vulkan calls the code         *)
(* matches on (recreate, acquire, flush) are inputs of the actions.        *)
(***************************************************************************)
EXTENDS Integers, Sequences, FiniteSets, TLC

\* ------------------------------------------------------------------ bounds

\* Stage-entering calls recorded per frame of the mesh renderer.
MaxCalls == 5

\* Images of the swapchain (caps.min_image_count of the surface).
NumImages == 3

\* Distinct inner sizes the window takes.
NumSizes == 2

\* Point lights and metaballs of a small scene.
MaxLights == 1

MaxMetaballs == 1

\* ------------------------------------------------------------------ state

VARIABLES
    program,            \* which renderer this behaviour runs
    \* ---- MeshRenderer (mesh.rs)
    render_stage,       \* MeshRenderer.render_stage
    render_error,       \* MeshRenderer.base.render_error
    mesh_panicked,      \* a call of the mesh renderer has panicked
    mesh_call,          \* name of the last call made
    mesh_prev,          \* name of the call made before it
    mesh_from,          \* render_stage when the last call was made
    mesh_outcome,       \* "accepted", "ignored" (render_error) or "panic"
    mesh_update,        \* last RenderStage::update: <<self, new_stage, result>>
    mesh_hist,          \* accepted stage-entering calls since the stage last left Stopped
    vp_set              \* MeshRenderer.vp_set is Some

\* ---- Renderer (renderer/mod.rs)
VARIABLES
    rend_render_stage,          \* Renderer.render_stage
    should_recreate_swapchain,  \* Renderer.should_recreate_swapchain
    commands,                   \* Renderer.commands is Some
    image_idx,                  \* Renderer.image_idx
    acquire_future,             \* Renderer.acquire_future is Some
    fences,                     \* Renderer.fences[i] is Some
    previous_fence_idx,         \* Renderer.previous_fence_idx
    rend_panicked,              \* a call of the renderer has panicked
    rend_call,                  \* name of the last call made
    rend_from,                  \* render_stage when the last call was made
    rend_outcome,               \* "accepted", "ignored" (Error stage), "err" or "panic"
    rend_submitted,             \* the last call handed a command buffer to the queue
    rend_recreated,             \* the last call recreated the swapchain
    rend_drawn                  \* a draw_object was recorded since the last start

\* ---- the event loop of Renderer::run (lib.rs)
VARIABLES
    recreate_swapchain,     \* the local recreate_swapchain of run()
    previous_frame_end,     \* what previous_frame_end holds: "now" or "fence"
    control_flow,           \* "Poll" or "Exit"
    window_size,            \* self.window.inner_size()
    swapchain_extent,       \* image_extent of self.swapchain
    run_panicked,           \* the handler has panicked
    run_event,              \* the last event handled
    run_pending,            \* a Resized event was handled and no recreation since
    run_redraw              \* what the last RedrawEventsCleared did

\* ---- MarchedRenderer (rhyolite/src/renderer/marched.rs)
VARIABLES
    marched_render_error,   \* MarchedRenderer.base.render_error
    marched_vp_set,         \* MarchedRenderer.vp_set is Some
    geometry_set,           \* <<>> for None, <<n>>: the set built from n metaballs
    lighting_data,          \* <<>> for None, <<n>>: point_light_count n
    marched_panicked,       \* a call of the marched renderer has panicked
    marched_call,           \* name of the last call made
    marched_result,         \* what the last finish returned: "Ok", "Err" or "panic"
    marched_error_at_call,  \* render_error when the last finish was called
    marched_drawn,          \* <<>>, or <<n>>: the last finish drew geometry set <<n>>
    marched_base_finish,    \* the last finish called base.finish()
    marched_added,          \* add_objects was called since the last start
    marched_ever_added,     \* add_objects has returned at least once
    marched_ever_lit        \* config_lighting has returned at least once

mesh_vars == <<render_stage, render_error, mesh_panicked, mesh_call, mesh_prev,
               mesh_from, mesh_outcome, mesh_update, mesh_hist, vp_set>>

rend_vars == <<rend_render_stage, should_recreate_swapchain, commands, image_idx,
               acquire_future, fences, previous_fence_idx, rend_panicked, rend_call,
               rend_from, rend_outcome, rend_submitted, rend_recreated, rend_drawn>>

run_vars == <<recreate_swapchain, previous_frame_end, control_flow, window_size,
              swapchain_extent, run_panicked, run_event, run_pending, run_redraw>>

marched_vars == <<marched_render_error, marched_vp_set, geometry_set, lighting_data,
                  marched_panicked, marched_call, marched_result, marched_error_at_call,
                  marched_drawn, marched_base_finish, marched_added, marched_ever_added,
                  marched_ever_lit>>

vars == <<program, mesh_vars, rend_vars, run_vars, marched_vars>>

Programs == {"mesh", "renderer", "run", "marched"}

\* ------------------------------------------------- RenderStage (mesh.rs)

MeshStages == {"Stopped", "Albedo", "Ambient", "Point", "Unlit"}

\* Faulty variant: the Albedo arm no longer rejects the later stages.
update_albedo_unchecked(self, new_stage) ==
    CASE new_stage = "Albedo" ->
            IF self = "Stopped"
            THEN [stage |-> "Albedo", out_of_order |-> FALSE]
            ELSE [stage |-> self, out_of_order |-> FALSE]
      [] new_stage = "Ambient" ->
            IF self = "Albedo"
            THEN [stage |-> "Ambient", out_of_order |-> FALSE]
            ELSE [stage |-> self, out_of_order |-> TRUE]
      [] new_stage = "Point" ->
            CASE self = "Ambient" -> [stage |-> "Point", out_of_order |-> FALSE]
              [] self = "Point" -> [stage |-> self, out_of_order |-> FALSE]
              [] OTHER -> [stage |-> self, out_of_order |-> TRUE]
      [] new_stage = "Unlit" ->
            CASE self \in {"Ambient", "Point"} -> [stage |-> "Unlit", out_of_order |-> FALSE]
              [] self = "Unlit" -> [stage |-> self, out_of_order |-> FALSE]
              [] OTHER -> [stage |-> self, out_of_order |-> TRUE]
      [] new_stage = "Stopped" ->
            IF self \in {"Ambient", "Point", "Unlit"}
            THEN [stage |-> "Stopped", out_of_order |-> FALSE]
            ELSE [stage |-> self, out_of_order |-> TRUE]

\* Faulty variant: the Point arm requires a preceding point light before Unlit and
\* Stopped, as the doc comments of draw_object_unlit and finish word it.
update_point_required(self, new_stage) ==
    CASE new_stage = "Albedo" ->
            CASE self = "Stopped" -> [stage |-> "Albedo", out_of_order |-> FALSE]
              [] self = "Albedo" -> [stage |-> self, out_of_order |-> FALSE]
              [] OTHER -> [stage |-> self, out_of_order |-> TRUE]
      [] new_stage = "Ambient" ->
            IF self = "Albedo"
            THEN [stage |-> "Ambient", out_of_order |-> FALSE]
            ELSE [stage |-> self, out_of_order |-> TRUE]
      [] new_stage = "Point" ->
            CASE self = "Ambient" -> [stage |-> "Point", out_of_order |-> FALSE]
              [] self = "Point" -> [stage |-> self, out_of_order |-> FALSE]
              [] OTHER -> [stage |-> self, out_of_order |-> TRUE]
      [] new_stage = "Unlit" ->
            CASE self = "Point" -> [stage |-> "Unlit", out_of_order |-> FALSE]
              [] self = "Unlit" -> [stage |-> self, out_of_order |-> FALSE]
              [] OTHER -> [stage |-> self, out_of_order |-> TRUE]
      [] new_stage = "Stopped" ->
            IF self \in {"Point", "Unlit"}
            THEN [stage |-> "Stopped", out_of_order |-> FALSE]
            ELSE [stage |-> self, out_of_order |-> TRUE]

\* Faulty variant: the Point arm accepts every stage that is past the G-buffer.
update_point_after_unlit(self, new_stage) ==
    CASE new_stage = "Albedo" ->
            CASE self = "Stopped" -> [stage |-> "Albedo", out_of_order |-> FALSE]
              [] self = "Albedo" -> [stage |-> self, out_of_order |-> FALSE]
              [] OTHER -> [stage |-> self, out_of_order |-> TRUE]
      [] new_stage = "Ambient" ->
            IF self = "Albedo"
            THEN [stage |-> "Ambient", out_of_order |-> FALSE]
            ELSE [stage |-> self, out_of_order |-> TRUE]
      [] new_stage = "Point" ->
            CASE self \in {"Ambient", "Unlit"} -> [stage |-> "Point", out_of_order |-> FALSE]
              [] self = "Point" -> [stage |-> self, out_of_order |-> FALSE]
              [] OTHER -> [stage |-> self, out_of_order |-> TRUE]
      [] new_stage = "Unlit" ->
            CASE self \in {"Ambient", "Point"} -> [stage |-> "Unlit", out_of_order |-> FALSE]
              [] self = "Unlit" -> [stage |-> self, out_of_order |-> FALSE]
              [] OTHER -> [stage |-> self, out_of_order |-> TRUE]
      [] new_stage = "Stopped" ->
            IF self \in {"Ambient", "Point", "Unlit"}
            THEN [stage |-> "Stopped", out_of_order |-> FALSE]
            ELSE [stage |-> self, out_of_order |-> TRUE]

\* RenderStage::update: the stage after the call and whether it panics.  The
\* assignment to *self happens only in the arms that are in order, so a
\* panicking call leaves the stage as it was.
update(self, new_stage) ==
    CASE new_stage = "Albedo" ->
            CASE self = "Stopped" -> [stage |-> "Albedo", out_of_order |-> FALSE]
              [] self = "Albedo" -> [stage |-> self, out_of_order |-> FALSE]
              [] OTHER -> [stage |-> self, out_of_order |-> TRUE]
      [] new_stage = "Ambient" ->
            IF self = "Albedo"
            THEN [stage |-> "Ambient", out_of_order |-> FALSE]
            ELSE [stage |-> self, out_of_order |-> TRUE]
      [] new_stage = "Point" ->
            CASE self = "Ambient" -> [stage |-> "Point", out_of_order |-> FALSE]
              [] self = "Point" -> [stage |-> self, out_of_order |-> FALSE]
              [] OTHER -> [stage |-> self, out_of_order |-> TRUE]
      [] new_stage = "Unlit" ->
            CASE self \in {"Ambient", "Point"} -> [stage |-> "Unlit", out_of_order |-> FALSE]
              [] self = "Unlit" -> [stage |-> self, out_of_order |-> FALSE]
              [] OTHER -> [stage |-> self, out_of_order |-> TRUE]
      [] new_stage = "Stopped" ->
            IF self \in {"Ambient", "Point", "Unlit"}
            THEN [stage |-> "Stopped", out_of_order |-> FALSE]
            ELSE [stage |-> self, out_of_order |-> TRUE]

\* ------------------------------------------------ RenderBase (not in src/)
\*
\* MeshRenderer and MarchedRenderer keep the swapchain, the command buffer
\* builder and render_error in a RenderBase, whose code is not part of the
\* sources at hand.  Of its calls only the effect on render_error, which
\* the renderers read, is modelled, and as any value it can take.  What
\* base.commands_mut() does on a renderer whose frame was never started or
\* was already finished is not modelled.

\* RenderBase::start: the values it may leave in render_error (an image was
\* acquired, or the acquisition failed and the frame is skipped).
RenderBase_start == {FALSE, TRUE}

\* RenderBase::finish: the values it may leave in render_error (the frame was
\* submitted, or the flush failed).
RenderBase_finish == {FALSE, TRUE}

\* ------------------------------------------------ MeshRenderer (mesh.rs)

\* The frame's record after an accepted stage-entering call: a call that
\* takes the stage out of Stopped opens a new record.
MeshRecord(name) ==
    IF render_stage = "Stopped" THEN <<name>> ELSE Append(mesh_hist, name)

\* Room in the frame's record for one more call.
MeshRoom == render_stage = "Stopped" \/ Len(mesh_hist) < MaxCalls

\* The body shared by the calls that start with
\* `if self.base.render_error { return; }` and then
\* `self.render_stage.update(new_stage)`.
\* `check_error` is whether the call has that first statement, `uses_vp`
\* whether it binds self.vp_set.as_ref().unwrap() after the update, and
\* `base_error` the values the call may leave in render_error.
MeshStageCall(name, new_stage, check_error, uses_vp, base_error) ==
    /\ program = "mesh"
    /\ ~mesh_panicked
    /\ mesh_call' = name
    /\ mesh_prev' = mesh_call
    /\ mesh_from' = render_stage
    /\ IF check_error /\ render_error
       THEN /\ mesh_outcome' = "ignored"
            /\ UNCHANGED <<render_stage, render_error, mesh_panicked, mesh_update, mesh_hist>>
       ELSE LET u == update(render_stage, new_stage)
                panics == u.out_of_order \/ (uses_vp /\ ~vp_set)
            IN
            /\ mesh_update' = <<render_stage, new_stage,
                                IF u.out_of_order THEN "panic" ELSE "ok">>
            /\ render_stage' = u.stage
            /\ mesh_panicked' = panics
            /\ mesh_outcome' = IF panics THEN "panic" ELSE "accepted"
            /\ mesh_hist' = IF panics THEN mesh_hist ELSE MeshRecord(name)
            /\ render_error' \in (IF panics THEN {render_error} ELSE base_error)
    /\ UNCHANGED vp_set

\* MeshRenderer::start_render_pass: binds the camera, recreates the swapchain
\* when asked to and calls base.start; render_stage is not touched.
start_render_pass ==
    /\ program = "mesh"
    /\ ~mesh_panicked
    /\ mesh_call' = "start_render_pass"
    /\ mesh_prev' = mesh_call
    /\ mesh_from' = render_stage
    /\ mesh_outcome' = "accepted"
    /\ vp_set' = TRUE
    /\ render_error' \in RenderBase_start
    /\ UNCHANGED <<render_stage, mesh_panicked, mesh_update, mesh_hist>>
    /\ UNCHANGED <<program, rend_vars, run_vars, marched_vars>>

\* MeshRenderer::finish
Mesh_finish ==
    /\ MeshStageCall("finish", "Stopped", TRUE, FALSE, RenderBase_finish)
    /\ UNCHANGED <<program, rend_vars, run_vars, marched_vars>>

\* MeshRenderer::add_object, the first statement of draw_object and
\* draw_object_indirect once render_error has been checked.
add_object(name) ==
    MeshStageCall(name, "Albedo", TRUE, TRUE, {render_error})

\* MeshRenderer::draw_object
draw_object ==
    /\ MeshRoom
    /\ add_object("draw_object")
    /\ UNCHANGED <<program, rend_vars, run_vars, marched_vars>>

\* MeshRenderer::draw_object_indirect
draw_object_indirect ==
    /\ MeshRoom
    /\ add_object("draw_object_indirect")
    /\ UNCHANGED <<program, rend_vars, run_vars, marched_vars>>

\* MeshRenderer::draw_object_pipeline: the one draw that does not look at
\* render_error before it updates the stage.
draw_object_pipeline ==
    /\ MeshRoom
    /\ MeshStageCall("draw_object_pipeline", "Albedo", FALSE, TRUE, {render_error})
    /\ UNCHANGED <<program, rend_vars, run_vars, marched_vars>>

\* MeshRenderer::draw_ambient_light
Mesh_draw_ambient_light ==
    /\ MeshRoom
    /\ MeshStageCall("draw_ambient_light", "Ambient", TRUE, FALSE, {render_error})
    /\ UNCHANGED <<program, rend_vars, run_vars, marched_vars>>

\* MeshRenderer::draw_point_light
Mesh_draw_point_light ==
    /\ MeshRoom
    /\ MeshStageCall("draw_point_light", "Point", TRUE, TRUE, {render_error})
    /\ UNCHANGED <<program, rend_vars, run_vars, marched_vars>>

\* MeshRenderer::draw_object_unlit
Mesh_draw_object_unlit ==
    /\ MeshRoom
    /\ MeshStageCall("draw_object_unlit", "Unlit", TRUE, TRUE, {render_error})
    /\ UNCHANGED <<program, rend_vars, run_vars, marched_vars>>

\* MeshRenderer::new
MeshInit ==
    /\ render_stage = "Stopped"
    /\ render_error = FALSE
    /\ mesh_panicked = FALSE
    /\ mesh_call = "none"
    /\ mesh_prev = "none"
    /\ mesh_from = "Stopped"
    /\ mesh_outcome = "none"
    /\ mesh_update = <<"Stopped", "Stopped", "none">>
    /\ mesh_hist = <<>>
    /\ vp_set = FALSE

MeshNext ==
    \/ start_render_pass
    \/ Mesh_finish
    \/ draw_object
    \/ draw_object_indirect
    \/ draw_object_pipeline
    \/ Mesh_draw_ambient_light
    \/ Mesh_draw_point_light
    \/ Mesh_draw_object_unlit

\* ------------------------------------------------- Renderer (renderer/mod.rs)

RendererStages == {"Stopped", "Albedo", "Ambient", "Point", "Unlit", "Error"}

\* const MAX_FRAMES_IN_FLIGHT: the length of Renderer.fences.
MAX_FRAMES_IN_FLIGHT == 3

Images == 0 .. (NumImages - 1)

FenceSlots == 0 .. (MAX_FRAMES_IN_FLIGHT - 1)

\* The match on render_stage that opens Renderer::draw_object.
Renderer_draw_object_match(stage) ==
    CASE stage = "Albedo" -> [stage |-> "Albedo", arm |-> "go"]
      [] stage = "Error" -> [stage |-> stage, arm |-> "error"]
      [] OTHER -> [stage |-> stage, arm |-> "panic"]

\* The match on render_stage that opens Renderer::draw_ambient_light.
Renderer_draw_ambient_light_match(stage) ==
    CASE stage = "Albedo" -> [stage |-> "Ambient", arm |-> "go"]
      [] stage = "Error" -> [stage |-> stage, arm |-> "error"]
      [] OTHER -> [stage |-> stage, arm |-> "panic"]

\* Faulty variant: a point light is also taken after an unlit object.
Renderer_draw_point_light_after_unlit(stage) ==
    CASE stage \in {"Ambient", "Unlit"} -> [stage |-> "Point", arm |-> "go"]
      [] stage = "Point" -> [stage |-> stage, arm |-> "go"]
      [] stage = "Error" -> [stage |-> stage, arm |-> "error"]
      [] OTHER -> [stage |-> stage, arm |-> "panic"]

\* The match on render_stage that opens Renderer::draw_point_light.
Renderer_draw_point_light_match(stage) ==
    CASE stage = "Ambient" -> [stage |-> "Point", arm |-> "go"]
      [] stage = "Point" -> [stage |-> stage, arm |-> "go"]
      [] stage = "Error" -> [stage |-> stage, arm |-> "error"]
      [] OTHER -> [stage |-> stage, arm |-> "panic"]

\* The match on render_stage that opens Renderer::draw_object_unlit.
Renderer_draw_object_unlit_match(stage) ==
    CASE stage = "Point" -> [stage |-> "Unlit", arm |-> "go"]
      [] stage = "Unlit" -> [stage |-> stage, arm |-> "go"]
      [] stage = "Error" -> [stage |-> stage, arm |-> "error"]
      [] OTHER -> [stage |-> stage, arm |-> "panic"]

\* Faulty variant: finish also submits a frame that stopped at the ambient light.
Renderer_finish_after_ambient(stage) ==
    CASE stage \in {"Ambient", "Point", "Unlit"} -> [stage |-> stage, arm |-> "go"]
      [] stage = "Error" -> [stage |-> stage, arm |-> "error"]
      [] OTHER -> [stage |-> stage, arm |-> "panic"]

\* The match on render_stage that opens Renderer::finish.
Renderer_finish_match(stage) ==
    CASE stage = "Point" -> [stage |-> stage, arm |-> "go"]
      [] stage = "Unlit" -> [stage |-> stage, arm |-> "go"]
      [] stage = "Error" -> [stage |-> stage, arm |-> "error"]
      [] OTHER -> [stage |-> stage, arm |-> "panic"]

\* What every call of the renderer records about itself.
RendCall(name) ==
    /\ program = "renderer"
    /\ ~rend_panicked
    /\ rend_call' = name
    /\ rend_from' = rend_render_stage

\* A draw call: the match m on the stage, then the commands.  `configured`
\* is whether the object has a vertex buffer (get_vertex_buffer()? returns
\* Err(UnconfiguredError) otherwise, after the stage has been advanced).
RendDraw(name, m, configured) ==
    /\ RendCall(name)
    /\ rend_submitted' = FALSE
    /\ rend_recreated' = FALSE
    /\ CASE m.arm = "error" ->
              /\ commands' = FALSE
              /\ rend_outcome' = "ignored"
              /\ UNCHANGED <<rend_render_stage, rend_panicked, rend_drawn>>
         [] m.arm = "panic" ->
              /\ rend_panicked' = TRUE
              /\ rend_outcome' = "panic"
              /\ UNCHANGED <<rend_render_stage, commands, rend_drawn>>
         [] OTHER ->
              /\ rend_render_stage' = m.stage
              \* self.commands.as_mut().unwrap()
              /\ rend_panicked' = ~commands
              /\ rend_outcome' = IF ~commands THEN "panic"
                                 ELSE IF configured THEN "accepted" ELSE "err"
              /\ rend_drawn' = (rend_drawn \/ (name = "draw_object" /\ commands /\ configured))
              /\ UNCHANGED commands
    /\ UNCHANGED <<should_recreate_swapchain, image_idx, acquire_future, fences,
                   previous_fence_idx, program, mesh_vars, run_vars, marched_vars>>

\* Renderer::start.  recreate and acquire are the results of
\* Swapchain::recreate and swapchain::acquire_next_image.  The flag
\* should_recreate_swapchain is read here and set on OutOfDate; no statement
\* of the file clears it.  The wait on fences[image_idx] returns with the
\* fence left in its slot.
Renderer_start ==
    \E recreate \in {"ok", "extent_not_supported", "error"},
       acquire \in {"ok", "out_of_date", "error"},
       idx \in Images,
       wait \in {"ok", "error"} :
    /\ RendCall("start")
    /\ rend_submitted' = FALSE
    /\ rend_recreated' = (should_recreate_swapchain /\ recreate = "ok")
    /\ IF should_recreate_swapchain /\ recreate = "error"
       THEN \* panic!("Failed to recreate swapchain")
            /\ rend_panicked' = TRUE
            /\ rend_outcome' = "panic"
            /\ UNCHANGED <<rend_render_stage, should_recreate_swapchain, commands,
                           image_idx, acquire_future, rend_drawn>>
       ELSE CASE acquire = "out_of_date" ->
                   /\ rend_render_stage' = "Error"
                   /\ should_recreate_swapchain' = TRUE
                   /\ rend_outcome' = "ignored"
                   /\ UNCHANGED <<rend_panicked, commands, image_idx,
                                  acquire_future, rend_drawn>>
              [] acquire = "error" ->
                   \* panic!("Failed to acquire next image")
                   /\ rend_panicked' = TRUE
                   /\ rend_outcome' = "panic"
                   /\ UNCHANGED <<rend_render_stage, should_recreate_swapchain, commands,
                                  image_idx, acquire_future, rend_drawn>>
              [] OTHER ->
                   IF idx \notin FenceSlots \/ (fences[idx] /\ wait = "error")
                   THEN \* self.fences[image_idx]: index out of bounds, or
                        \* image_fence.wait(None).unwrap() on a failed wait
                        /\ rend_panicked' = TRUE
                        /\ rend_outcome' = "panic"
                        /\ UNCHANGED <<rend_render_stage, should_recreate_swapchain,
                                       commands, image_idx, acquire_future, rend_drawn>>
                   ELSE /\ commands' = TRUE
                        /\ image_idx' = idx
                        /\ acquire_future' = TRUE
                        /\ rend_render_stage' = "Albedo"
                        /\ rend_drawn' = FALSE
                        /\ rend_outcome' = "accepted"
                        /\ UNCHANGED <<rend_panicked, should_recreate_swapchain>>
    /\ UNCHANGED <<fences, previous_fence_idx, program, mesh_vars, run_vars, marched_vars>>

\* Faulty variant: the previous frame's fence is read but left in its slot.
finish_fences_keep_previous(f, prev, idx, flushed) ==
    [f EXCEPT ![idx] = flushed]

\* The fence bookkeeping of Renderer::finish: fences[previous_fence_idx].take()
\* empties the slot of the previous frame, then fences[image_idx] is assigned
\* Some(future) when the flush succeeded and None when it failed.
finish_fences(f, prev, idx, flushed) ==
    [[f EXCEPT ![prev] = FALSE] EXCEPT ![idx] = flushed]

\* Renderer::finish.  flush is the result of then_signal_fence_and_flush.
\* A flush that fails stores None in the image's slot and sets the stage to
\* Error, which the unconditional assignment of Stopped then overwrites.
Renderer_finish ==
    \E flush \in {"ok", "out_of_date", "error"} :
    LET m == Renderer_finish_match(rend_render_stage) IN
    /\ RendCall("finish")
    /\ rend_recreated' = FALSE
    /\ CASE m.arm = "error" ->
              /\ commands' = FALSE
              /\ rend_outcome' = "ignored"
              /\ rend_submitted' = FALSE
              /\ UNCHANGED <<rend_render_stage, rend_panicked, acquire_future, fences,
                             previous_fence_idx>>
         [] m.arm = "panic" ->
              /\ rend_panicked' = TRUE
              /\ rend_outcome' = "panic"
              /\ rend_submitted' = FALSE
              /\ UNCHANGED <<rend_render_stage, commands, acquire_future, fences,
                             previous_fence_idx>>
         [] OTHER ->
              IF ~commands \/ ~acquire_future
              THEN \* self.commands.take().unwrap(), self.acquire_future.take().unwrap()
                   /\ rend_panicked' = TRUE
                   /\ rend_outcome' = "panic"
                   /\ rend_submitted' = FALSE
                   /\ commands' = FALSE
                   /\ UNCHANGED <<rend_render_stage, acquire_future, fences,
                                  previous_fence_idx>>
              ELSE /\ acquire_future' = FALSE
                   /\ fences' = finish_fences(fences, previous_fence_idx, image_idx,
                                               flush = "ok")
                   /\ commands' = FALSE
                   /\ rend_render_stage' = "Stopped"
                   /\ previous_fence_idx' = image_idx
                   /\ rend_submitted' = TRUE
                   /\ rend_outcome' = "accepted"
                   /\ UNCHANGED rend_panicked
    /\ UNCHANGED <<should_recreate_swapchain, image_idx, rend_drawn, program, mesh_vars, run_vars, marched_vars>>

\* Renderer::draw_object
Renderer_draw_object ==
    \E configured \in BOOLEAN :
    RendDraw("draw_object", Renderer_draw_object_match(rend_render_stage), configured)

\* Renderer::draw_ambient_light
Renderer_draw_ambient_light ==
    RendDraw("draw_ambient_light", Renderer_draw_ambient_light_match(rend_render_stage), TRUE)

\* Renderer::draw_point_light
Renderer_draw_point_light ==
    RendDraw("draw_point_light", Renderer_draw_point_light_match(rend_render_stage), TRUE)

\* Renderer::draw_object_unlit
Renderer_draw_object_unlit ==
    \E configured \in BOOLEAN :
    RendDraw("draw_object_unlit", Renderer_draw_object_unlit_match(rend_render_stage), configured)

\* Renderer::new
RendererInit ==
    /\ rend_render_stage = "Stopped"
    /\ should_recreate_swapchain = FALSE
    /\ commands = FALSE
    /\ image_idx = 0
    /\ acquire_future = FALSE
    /\ fences = [i \in FenceSlots |-> FALSE]
    /\ previous_fence_idx = 0
    /\ rend_panicked = FALSE
    /\ rend_call = "none"
    /\ rend_from = "Stopped"
    /\ rend_outcome = "none"
    /\ rend_submitted = FALSE
    /\ rend_recreated = FALSE
    /\ rend_drawn = FALSE

RendererNext ==
    \/ Renderer_start
    \/ Renderer_finish
    \/ Renderer_draw_object
    \/ Renderer_draw_ambient_light
    \/ Renderer_draw_point_light
    \/ Renderer_draw_object_unlit

\* ------------------------------------------- Renderer::run (lib.rs)

Sizes == 1 .. NumSizes

\* What a RedrawEventsCleared that did nothing looks like.
NoRedraw ==
    [flag_at_start |-> FALSE, recreated |-> FALSE, acquired |-> FALSE,
     flag_at_acquire |-> FALSE, pending_at_acquire |-> FALSE,
     extent_at_acquire |-> 0, size_at_acquire |-> 0]

\* Faulty variant: an unsupported image extent no longer leaves the handler.
recreate_if_invalid_no_return(flag, result) ==
    CASE ~flag -> [recreated |-> FALSE, flag |-> FALSE, arm |-> "go"]
      [] result = "ok" -> [recreated |-> TRUE, flag |-> FALSE, arm |-> "go"]
      [] result = "extent_not_supported" -> [recreated |-> FALSE, flag |-> TRUE, arm |-> "go"]
      [] OTHER -> [recreated |-> FALSE, flag |-> TRUE, arm |-> "panic"]

\* `if recreate_swapchain { ... recreate_swapchain = false; }` of the redraw
\* handler: whether the swapchain was recreated, the flag afterwards, and
\* whether the handler goes on, returns or panics.
recreate_if_invalid(flag, result) ==
    CASE ~flag -> [recreated |-> FALSE, flag |-> FALSE, arm |-> "go"]
      [] result = "ok" -> [recreated |-> TRUE, flag |-> FALSE, arm |-> "go"]
      [] result = "extent_not_supported" -> [recreated |-> FALSE, flag |-> TRUE, arm |-> "return"]
      [] OTHER -> [recreated |-> FALSE, flag |-> TRUE, arm |-> "panic"]

\* The event loop takes events until it exits or a handler panics.
RunEvent(name) ==
    /\ program = "run"
    /\ ~run_panicked
    /\ control_flow = "Poll"
    /\ run_event' = name

\* Event::WindowEvent { event: WindowEvent::CloseRequested }
CloseRequested ==
    /\ RunEvent("CloseRequested")
    /\ control_flow' = "Exit"
    /\ UNCHANGED <<recreate_swapchain, previous_frame_end, window_size, swapchain_extent,
                   run_panicked, run_pending, run_redraw>>
    /\ UNCHANGED <<program, mesh_vars, rend_vars, marched_vars>>

\* Event::WindowEvent { event: WindowEvent::Resized(_) }: the window has
\* its new inner size when the event is handled.
Resized ==
    \E size \in Sizes :
    /\ RunEvent("Resized")
    /\ window_size' = size
    /\ recreate_swapchain' = TRUE
    /\ run_pending' = TRUE
    /\ UNCHANGED <<previous_frame_end, control_flow, swapchain_extent, run_panicked,
                   run_redraw>>
    /\ UNCHANGED <<program, mesh_vars, rend_vars, marched_vars>>

\* Event::RedrawEventsCleared.  recreate, acquire and flush are the results
\* of Swapchain::recreate, acquire_next_image and then_signal_fence_and_flush.
RedrawEventsCleared ==
    \E recreate \in {"ok", "extent_not_supported", "error"},
       acquire \in {"ok", "out_of_date", "error"},
       suboptimal \in BOOLEAN,
       flush \in {"ok", "out_of_date", "error"} :
    LET r == recreate_if_invalid(recreate_swapchain, recreate)
        extent == IF r.recreated THEN window_size ELSE swapchain_extent
        pending == run_pending /\ ~r.recreated
        begun == [NoRedraw EXCEPT !.flag_at_start = recreate_swapchain,
                                  !.recreated = r.recreated]
    IN
    /\ RunEvent("RedrawEventsCleared")
    /\ CASE r.arm = "return" ->
              /\ run_redraw' = begun
              /\ UNCHANGED <<recreate_swapchain, previous_frame_end, swapchain_extent,
                             run_panicked, run_pending>>
         [] r.arm = "panic" ->
              /\ run_redraw' = begun
              /\ run_panicked' = TRUE
              /\ UNCHANGED <<recreate_swapchain, previous_frame_end, swapchain_extent,
                             run_pending>>
         [] OTHER ->
              /\ swapchain_extent' = extent
              /\ run_pending' = pending
              /\ CASE acquire = "out_of_date" ->
                        /\ recreate_swapchain' = TRUE
                        /\ run_redraw' = begun
                        /\ UNCHANGED <<previous_frame_end, run_panicked>>
                   [] acquire = "error" ->
                        /\ recreate_swapchain' = r.flag
                        /\ run_redraw' = begun
                        /\ run_panicked' = TRUE
                        /\ UNCHANGED previous_frame_end
                   [] OTHER ->
                        /\ run_redraw' = [begun EXCEPT !.acquired = TRUE,
                                                       !.flag_at_acquire = r.flag,
                                                       !.pending_at_acquire = pending,
                                                       !.extent_at_acquire = extent,
                                                       !.size_at_acquire = window_size]
                        /\ recreate_swapchain' = (r.flag \/ suboptimal \/ flush = "out_of_date")
                        /\ previous_frame_end' = IF flush = "ok" THEN "fence" ELSE "now"
                        /\ UNCHANGED run_panicked
    /\ UNCHANGED <<control_flow, window_size>>
    /\ UNCHANGED <<program, mesh_vars, rend_vars, marched_vars>>

\* `_ => {}`: every other event.
OtherEvent ==
    /\ RunEvent("Other")
    /\ UNCHANGED <<recreate_swapchain, previous_frame_end, control_flow, window_size,
                   swapchain_extent, run_panicked, run_pending, run_redraw>>
    /\ UNCHANGED <<program, mesh_vars, rend_vars, marched_vars>>

\* The state run() sets up before it enters the event loop: the swapchain
\* was created with the window's inner size.
RunInit ==
    /\ recreate_swapchain = FALSE
    /\ previous_frame_end = "now"
    /\ control_flow = "Poll"
    /\ window_size = 1
    /\ swapchain_extent = 1
    /\ run_panicked = FALSE
    /\ run_event = "none"
    /\ run_pending = FALSE
    /\ run_redraw = NoRedraw

RunNext ==
    \/ CloseRequested
    \/ Resized
    \/ RedrawEventsCleared
    \/ OtherEvent

\* ------------------------- MarchedRenderer (rhyolite/src/renderer/marched.rs)

MAX_POINT_LIGHTS == 16

MAX_METABALLS == 1024

\* Lengths of the vectors handed to config_lighting and add_objects: empty,
\* small, and on both sides of the capacity.
LightCounts == (0 .. MaxLights) \cup {MAX_POINT_LIGHTS - 1, MAX_POINT_LIGHTS}

MetaballCounts == (0 .. MaxMetaballs) \cup {MAX_METABALLS - 1, MAX_METABALLS}

\* to_partially_init_arr::<MAX_LEN, T> panics on the element with
\* i + 1 == MAX_LEN, that is when `len` elements reach MAX_LEN.
to_partially_init_arr(MAX_LEN, len) ==
    IF len >= MAX_LEN THEN "panic" ELSE "ok"

\* Faulty variant: finish no longer looks at lighting_data before it draws.
finish_checks_geometry_only(error, geometry, lighting) ==
    CASE error -> "skip"
      [] geometry = <<>> -> "Err"
      [] OTHER -> "draw"

\* The checks that open MarchedRenderer::finish: "skip" returns Ok(()) at
\* once, "Err" returns Err(UnconfiguredError), "draw" goes on to record the
\* draw and call base.finish().
finish_checks(error, geometry, lighting) ==
    CASE error -> "skip"
      [] geometry = <<>> -> "Err"
      [] lighting = <<>> -> "Err"
      [] OTHER -> "draw"

MarchedCall(name) ==
    /\ program = "marched"
    /\ ~marched_panicked
    /\ marched_call' = name

\* MarchedRenderer::start
Marched_start ==
    /\ MarchedCall("start")
    /\ marched_vp_set' = TRUE
    /\ marched_render_error' \in RenderBase_start
    /\ marched_added' = FALSE
    /\ UNCHANGED <<geometry_set, lighting_data, marched_panicked, marched_result,
                   marched_error_at_call, marched_drawn, marched_base_finish,
                   marched_ever_added, marched_ever_lit>>
    /\ UNCHANGED <<program, mesh_vars, rend_vars, run_vars>>

\* MarchedRenderer::finish
Marched_finish ==
    LET c == finish_checks(marched_render_error, geometry_set, lighting_data) IN
    /\ MarchedCall("finish")
    /\ marched_error_at_call' = marched_render_error
    /\ CASE c = "skip" ->
              /\ marched_result' = "Ok"
              /\ marched_drawn' = <<>>
              /\ marched_base_finish' = FALSE
              /\ UNCHANGED <<marched_render_error, marched_panicked>>
         [] c = "Err" ->
              /\ marched_result' = "Err"
              /\ marched_drawn' = <<>>
              /\ marched_base_finish' = FALSE
              /\ UNCHANGED <<marched_render_error, marched_panicked>>
         [] OTHER ->
              IF ~marched_vp_set
              THEN \* self.vp_set.as_ref().unwrap()
                   /\ marched_result' = "panic"
                   /\ marched_panicked' = TRUE
                   /\ marched_drawn' = <<>>
                   /\ marched_base_finish' = FALSE
                   /\ UNCHANGED marched_render_error
              ELSE /\ marched_result' = "Ok"
                   /\ marched_drawn' = geometry_set
                   /\ marched_base_finish' = TRUE
                   /\ marched_render_error' \in RenderBase_finish
                   /\ UNCHANGED marched_panicked
    /\ UNCHANGED <<marched_vp_set, geometry_set, lighting_data, marched_added,
                   marched_ever_added, marched_ever_lit>>
    /\ UNCHANGED <<program, mesh_vars, rend_vars, run_vars>>

\* MarchedRenderer::config_lighting
config_lighting ==
    \E n \in LightCounts :
    /\ MarchedCall("config_lighting")
    /\ IF to_partially_init_arr(MAX_POINT_LIGHTS, n) = "panic"
       THEN /\ marched_panicked' = TRUE
            /\ UNCHANGED <<lighting_data, marched_ever_lit>>
       ELSE /\ lighting_data' = <<n>>
            /\ marched_ever_lit' = TRUE
            /\ UNCHANGED marched_panicked
    /\ UNCHANGED <<marched_render_error, marched_vp_set, geometry_set, marched_result,
                   marched_error_at_call, marched_drawn, marched_base_finish,
                   marched_added, marched_ever_added>>
    /\ UNCHANGED <<program, mesh_vars, rend_vars, run_vars>>

\* MarchedRenderer::add_objects
add_objects ==
    \E n \in MetaballCounts :
    /\ MarchedCall("add_objects")
    /\ IF to_partially_init_arr(MAX_METABALLS, n) = "panic"
       THEN /\ marched_panicked' = TRUE
            /\ UNCHANGED <<geometry_set, marched_added, marched_ever_added>>
       ELSE /\ geometry_set' = <<n>>
            /\ marched_added' = TRUE
            /\ marched_ever_added' = TRUE
            /\ UNCHANGED marched_panicked
    /\ UNCHANGED <<marched_render_error, marched_vp_set, lighting_data, marched_result,
                   marched_error_at_call, marched_drawn, marched_base_finish,
                   marched_ever_lit>>
    /\ UNCHANGED <<program, mesh_vars, rend_vars, run_vars>>

\* MarchedRenderer::new
MarchedInit ==
    /\ marched_render_error = FALSE
    /\ marched_vp_set = FALSE
    /\ geometry_set = <<>>
    /\ lighting_data = <<>>
    /\ marched_panicked = FALSE
    /\ marched_call = "none"
    /\ marched_result = "none"
    /\ marched_error_at_call = FALSE
    /\ marched_drawn = <<>>
    /\ marched_base_finish = FALSE
    /\ marched_added = FALSE
    /\ marched_ever_added = FALSE
    /\ marched_ever_lit = FALSE

MarchedNext ==
    \/ Marched_start
    \/ Marched_finish
    \/ config_lighting
    \/ add_objects

\* ------------------------------------------------------------ specification

Init ==
    /\ program \in Programs
    /\ MeshInit
    /\ RendererInit
    /\ RunInit
    /\ MarchedInit

Next ==
    \/ MeshNext
    \/ RendererNext
    \/ RunNext
    \/ MarchedNext

Spec == Init /\ [][Next]_vars

\* ------------------------------------------------------ claims: mesh.rs

\* Position of a stage-entering call in the order of a frame.
Rank(name) ==
    CASE name \in {"draw_object", "draw_object_indirect", "draw_object_pipeline"} -> 1
      [] name = "draw_ambient_light" -> 2
      [] name = "draw_point_light" -> 3
      [] name = "draw_object_unlit" -> 4
      [] name = "finish" -> 5

\* h is a prefix of: albedo+, ambient, point*, unlit*, finish.
InFrameOrder(h) ==
    /\ h # <<>> => Rank(h[1]) = 1
    /\ \A i \in 1 .. (Len(h) - 1) :
          /\ Rank(h[i]) <= Rank(h[i + 1])
          /\ Rank(h[i]) = Rank(h[i + 1]) => Rank(h[i]) \in {1, 3, 4}
          /\ Rank(h[i + 1]) > 2 => \E j \in 1 .. i : Rank(h[j]) = 2

\* C1: the stage-entering calls the mesh renderer accepts between two
\* Stopped states come in the order albedo draws (one or more), one ambient
\* light, point lights (any number), unlit objects (any number), finish; the
\* frame is closed (stage Stopped again) exactly when finish was accepted.
C1_FrameOrder ==
    program = "mesh" =>
        /\ InFrameOrder(mesh_hist)
        /\ (mesh_hist # <<>> /\ mesh_hist[Len(mesh_hist)] = "finish")
              <=> (mesh_hist # <<>> /\ render_stage = "Stopped")

C1_Witness ==
    /\ program = "mesh"
    /\ ~mesh_panicked
    /\ render_stage = "Stopped"
    /\ mesh_hist = <<"draw_object", "draw_ambient_light", "draw_point_light",
                     "draw_object_unlit", "finish">>

\* The (current, new) pairs RenderStage::update lets through.
LegalUpdates ==
    {<<"Stopped", "Albedo">>, <<"Albedo", "Albedo">>, <<"Albedo", "Ambient">>,
     <<"Ambient", "Point">>, <<"Point", "Point">>, <<"Ambient", "Unlit">>,
     <<"Point", "Unlit">>, <<"Unlit", "Unlit">>, <<"Ambient", "Stopped">>,
     <<"Point", "Stopped">>, <<"Unlit", "Stopped">>}

\* C2: RenderStage::update(new) leaves the stage at new without panicking
\* exactly for the eleven legal (current, new) pairs; for every other pair it
\* panics and the stage stays what it was.
C2_UpdateTable ==
    (program = "mesh" /\ mesh_update[3] # "none") =>
        /\ mesh_update[3] = "ok" <=> <<mesh_update[1], mesh_update[2]>> \in LegalUpdates
        /\ mesh_update[3] = "ok" => render_stage = mesh_update[2]
        /\ mesh_update[3] = "panic" => render_stage = mesh_update[1] /\ mesh_panicked

C2_Witness ==
    /\ program = "mesh"
    /\ mesh_update = <<"Unlit", "Point", "panic">>
    /\ render_stage = "Unlit"
    /\ mesh_panicked

C6_AmbientAfterDrawObject ==
    (program = "renderer" /\ rend_call = "draw_ambient_light" /\ rend_from # "Error"
        /\ (~rend_drawn \/ rend_from \in {"Ambient", "Point", "Unlit"}))
    => rend_outcome = "panic"

\* C7: Renderer::finish panics at the stages Stopped, Albedo and Ambient; at
\* Point and Unlit it submits the frame and leaves the stage Stopped; at
\* Error it returns without submitting and without panicking.
C7_RendererFinish ==
    (program = "renderer" /\ rend_call = "finish") =>
        /\ rend_from \in {"Stopped", "Albedo", "Ambient"} =>
              /\ rend_outcome = "panic"
              /\ ~rend_submitted
              /\ rend_render_stage = rend_from
        /\ rend_from \in {"Point", "Unlit"} =>
              /\ rend_outcome = "accepted"
              /\ rend_submitted
              /\ rend_render_stage = "Stopped"
              /\ ~rend_panicked
        /\ rend_from = "Error" =>
              /\ rend_outcome = "ignored"
              /\ ~rend_submitted
              /\ ~rend_panicked
              /\ rend_render_stage = "Error"

C7_Witness ==
    /\ program = "renderer"
    /\ rend_call = "finish"
    /\ rend_from = "Unlit"
    /\ rend_submitted
    /\ rend_render_stage = "Stopped"

C9_RecreateBeforeAcquire ==
    program = "run" =>
        /\ run_redraw.acquired =>
              /\ ~run_redraw.pending_at_acquire
              /\ ~run_redraw.flag_at_acquire
              /\ run_redraw.flag_at_start => run_redraw.recreated
              /\ run_redraw.extent_at_acquire = run_redraw.size_at_acquire
        /\ (run_redraw.flag_at_start /\ ~run_redraw.recreated /\ ~run_panicked) =>
              /\ ~run_redraw.acquired
              /\ recreate_swapchain
        /\ run_pending => recreate_swapchain

C9_Witness ==
    /\ program = "run"
    /\ run_event = "RedrawEventsCleared"
    /\ run_redraw.flag_at_start
    /\ run_redraw.recreated
    /\ run_redraw.acquired
    /\ window_size = 2
    /\ swapchain_extent = 2

\* ------------------------------------- claims: rhyolite/.../marched.rs

\* C10: MarchedRenderer::finish with render_error false returns
\* Err(UnconfiguredError) when add_objects or config_lighting has never been
\* called, and then records no draw and does not call base.finish(); it
\* returns Ok only when both were called.  With render_error true it returns
\* Ok(()) and checks neither.
C10_FinishUnconfigured ==
    (program = "marched" /\ marched_call = "finish") =>
        /\ (~marched_error_at_call /\ (~marched_ever_added \/ ~marched_ever_lit)) =>
              /\ marched_result = "Err"
              /\ marched_drawn = <<>>
              /\ ~marched_base_finish
        /\ (~marched_error_at_call /\ marched_result = "Ok") =>
              /\ marched_ever_added
              /\ marched_ever_lit
              /\ marched_drawn = geometry_set
              /\ marched_base_finish
        /\ marched_error_at_call =>
              /\ marched_result = "Ok"
              /\ marched_drawn = <<>>
              /\ ~marched_base_finish

C10_Witness ==
    /\ program = "marched"
    /\ marched_call = "finish"
    /\ ~marched_error_at_call
    /\ marched_ever_added
    /\ ~marched_ever_lit
    /\ marched_vp_set
    /\ marched_result = "Err"

\* C11: metaballs do not persist between frames: whenever
\* MarchedRenderer::finish draws a geometry set, that set was supplied by an
\* add_objects call made since the last start, so a frame without add_objects
\* draws none of the objects of an earlier frame.
C11_NoPersistence ==
    (program = "marched" /\ marched_call = "finish" /\ marched_drawn # <<>>) =>
        marched_added

\* ------------------------------------------- claims: renderer/mod.rs, later

\* C12: the swapchain is recreated once per invalidation: when
\* Renderer::start has recreated the swapchain and then acquired an image
\* (no new out-of-date condition was reported), should_recreate_swapchain is
\* false again, so that the next start does not recreate it once more.
C12_RecreateOnce ==
    (/\ program = "renderer"
     /\ rend_call = "start"
     /\ rend_recreated
     /\ rend_outcome = "accepted") => ~should_recreate_swapchain

\* C13: in Renderer (renderer/mod.rs) at most one entry of fences is
\* occupied, and it is the entry at previous_fence_idx; so when start has
\* acquired an image whose fence slot is occupied (the only case in which it
\* waits), that image is the one of the last submitted frame.
C13_SingleFence ==
    program = "renderer" =>
        /\ \A i \in FenceSlots : fences[i] => i = previous_fence_idx
        /\ (/\ rend_call = "start"
            /\ rend_outcome = "accepted"
            /\ fences[image_idx]) => image_idx = previous_fence_idx

C13_Witness ==
    /\ program = "renderer"
    /\ rend_call = "start"
    /\ rend_outcome = "accepted"
    /\ image_idx = 2
    /\ previous_fence_idx = 2
    /\ fences[2]
    /\ ~fences[0]
    /\ ~fences[1]

====
